---- MODULE Spec2Model ----
\* One invocation of sgpt's main (src/sgpt/app.py): argument checks, role
\* resolution, dispatch to REPL / print / delete / chat completion, and the
\* post-completion action prompts for --code and --shell.
EXTENDS Integers, Sequences, FiniteSets, TLC

\* Bounds of the model.
MaxMsgs == 2        \* messages a conversation may hold before the invocation
MaxRepl == 2        \* REPL turns explored before the interrupt
MaxDescribe == 2    \* Describe choices explored in the shell action loop

NoRole == "none"
NoPrompt == "none"
ChatIds == {"temp", "abc", ""}
RoleArgs == {NoRole, "", "custom", "ShellGen"}
PromptArgs == {NoPrompt, "p"}
CodeOptions == {"c", "a"}
ShellOptions == {"e", "d", "a", "y", "c"}

VARIABLES
  shell, describe_shell, code, editor, stdin_passed, repl, print_chat,
  delete_chat, role, chat_id,   \* the invocation's arguments
  prompt,                       \* the prompt after stdin / editor handling
  role_class,                   \* resolved role
  sessions,                     \* chat id -> number of stored messages
  init_sessions,                \* sessions as left by earlier invocations
  full_completion,              \* "unbound" until the chat completion returns
  read_before,                  \* messages read by the chat handler before its append (-1: none)
  handled_chat,                 \* chat id the default ChatHandler ran on ("-": none)
  repl_started, repl_turns, describes,
  log,                          \* observable effects, in order
  last_option,
  error, pc

vars == <<shell, describe_shell, code, editor, stdin_passed, repl, print_chat,
          delete_chat, role, chat_id, prompt, role_class, sessions,
          init_sessions, full_completion, read_before, handled_chat,
          repl_started, repl_turns, describes, log, last_option, error, pc>>

\* only the shell/code pair rejected
ModeConflictShellCode(s, ds, c) == s /\ c

\* `sum((shell, describe_shell, code)) > 1`
ModeConflict(s, ds, c) ==
  (IF s THEN 1 ELSE 0) + (IF ds THEN 1 ELSE 0) + (IF c THEN 1 ELSE 0) > 1

\* DefaultRoles.check_get(shell, describe_shell, code)
CheckGet(s, ds, c) ==
  IF s THEN "ShellGen" ELSE IF ds THEN "DescribeShell"
  ELSE IF c THEN "CodeGen" ELSE "Default"

\* mode flags taking precedence over --role
ResolveRoleFlagsFirst(s, ds, c, r) ==
  IF s \/ ds \/ c \/ r = NoRole \/ r = "" THEN CheckGet(s, ds, c) ELSE r

\* role_class = check_get(...) if not role else SystemRole.get(role)
ResolveRole(s, ds, c, r) ==
  IF r = NoRole \/ r = "" THEN CheckGet(s, ds, c) ELSE r

\* expected output shape of a role
Shape(r) ==
  CASE r = "ShellGen" -> "shell"
    [] r = "CodeGen" -> "code"
    [] r = "DescribeShell" -> "description"
    [] OTHER -> "plain"

\* Python truthiness of the prompt
PromptGiven(p) == p # NoPrompt /\ p # ""

\* a handler that keeps the scratch conversation
ChatHandlerInitNoReset(s, c) == s

\* ChatHandler(chat_id, role): the scratch conversation "temp" is invalidated
\* when a handler is constructed on it.
ChatHandlerInit(s, c) == IF c = "temp" THEN [s EXCEPT ![c] = 0] ELSE s

\* shell loop entered without the tty check
AfterCompletionNoStdin(c, s, stdin) ==
  IF c THEN "code_menu" ELSE IF s THEN "shell_menu" ELSE "done"

\* where the loop `while shell and not stdin_passed` / `if code` leads
AfterCompletion(c, s, stdin) ==
  IF c THEN "code_menu" ELSE IF s /\ ~stdin THEN "shell_menu" ELSE "done"

\* an interrupt caught around the REPL, main going on to --print-chat
ReplInterruptCaught == "print_chat_check"

\* main has no handler around the REPL: the interrupt unwinds out of main.
ReplInterruptNext == "exited"

Init ==
  /\ shell \in BOOLEAN /\ describe_shell \in BOOLEAN /\ code \in BOOLEAN
  /\ editor \in BOOLEAN /\ stdin_passed \in BOOLEAN /\ repl \in BOOLEAN
  /\ print_chat \in BOOLEAN /\ delete_chat \in BOOLEAN
  /\ role \in RoleArgs /\ chat_id \in ChatIds /\ prompt \in PromptArgs
  /\ role_class = "-"
  /\ sessions \in {f \in [ChatIds -> 0..MaxMsgs] : f[""] = 0}
  /\ init_sessions = sessions
  /\ full_completion = "unbound"
  /\ read_before = -1 /\ handled_chat = "-"
  /\ repl_started = FALSE /\ repl_turns = 0 /\ describes = 0
  /\ log = <<>> /\ last_option = "-" /\ error = "none" /\ pc = "start"

\* main, lines 145-197: stdin, flag checks, editor, role resolution and dispatch
Start ==
  /\ pc = "start"
  /\ LET p1 == IF stdin_passed /\ ~repl THEN "stdin" ELSE prompt
         rc == ResolveRole(shell, describe_shell, code, role)
     IN
     IF ModeConflict(shell, describe_shell, code)
     THEN /\ error' = "BadArgumentUsage" /\ pc' = "error"
          /\ prompt' = p1
          /\ UNCHANGED <<role_class, sessions, full_completion, read_before,
                         handled_chat, repl_started, log>>
     ELSE IF editor /\ stdin_passed
     THEN /\ error' = "BadArgumentUsage" /\ pc' = "error"
          /\ prompt' = p1
          /\ UNCHANGED <<role_class, sessions, full_completion, read_before,
                         handled_chat, repl_started, log>>
     ELSE
       \* get_edited_prompt() returns whatever the user typed in the editor
       \E ep \in IF editor THEN {"", "p"} ELSE {p1} :
       /\ prompt' = ep
       /\ role_class' = rc
       /\ IF repl
          THEN /\ sessions' = ChatHandlerInit(sessions, chat_id)
               /\ repl_started' = TRUE /\ pc' = "repl"
               /\ UNCHANGED <<error, full_completion, read_before, handled_chat, log>>
          ELSE IF print_chat
          THEN /\ log' = Append(log, "print") /\ pc' = "exited"
               /\ UNCHANGED <<error, sessions, full_completion, read_before,
                              handled_chat, repl_started>>
          ELSE IF delete_chat
          THEN /\ sessions' = [ChatHandlerInit(sessions, chat_id) EXCEPT ![chat_id] = 0]
               /\ log' = Append(log, "delete") /\ pc' = "exited"
               /\ UNCHANGED <<error, full_completion, read_before,
                              handled_chat, repl_started>>
          ELSE IF chat_id # ""
          THEN IF ~PromptGiven(ep)
               THEN /\ error' = "MissingParameter" /\ pc' = "error"
                    /\ UNCHANGED <<sessions, full_completion, read_before,
                                   handled_chat, repl_started, log>>
               ELSE LET s0 == ChatHandlerInit(sessions, chat_id) IN
                    /\ read_before' = s0[chat_id]
                    /\ sessions' = [s0 EXCEPT ![chat_id] = @ + 2]
                    /\ handled_chat' = chat_id
                    /\ full_completion' = "cmd"
                    /\ log' = Append(log, "complete")
                    /\ pc' = AfterCompletion(code, shell, stdin_passed)
                    /\ UNCHANGED <<error, repl_started>>
          ELSE /\ pc' = AfterCompletion(code, shell, stdin_passed)
               /\ UNCHANGED <<error, sessions, full_completion, read_before,
                              handled_chat, repl_started, log>>
  /\ UNCHANGED <<shell, describe_shell, code, editor, stdin_passed, repl,
                 print_chat, delete_chat, role, chat_id, init_sessions,
                 repl_turns, describes, last_option>>

\* a REPL that returns after a turn, main going on to --print-chat
ReplTurnEnds == "print_chat_check"

\* ReplHandler.handle loops after every turn; only the interrupt leaves it.
ReplTurnNext == "repl"

\* ReplHandler(chat_id, role).handle: one turn of the REPL, appending the
\* exchange to the REPL's conversation.
ReplTurn ==
  /\ pc = "repl"
  /\ repl_turns < MaxRepl
  /\ sessions' = [sessions EXCEPT ![chat_id] = @ + 2]
  /\ repl_turns' = repl_turns + 1
  /\ log' = Append(log, "repl_turn")
  /\ pc' = ReplTurnNext
  /\ UNCHANGED <<shell, describe_shell, code, editor, stdin_passed, repl,
                 print_chat, delete_chat, role, chat_id, prompt, role_class,
                 init_sessions, full_completion, read_before, handled_chat,
                 repl_started, describes, last_option, error>>

\* Ctrl+C inside the REPL
ReplInterrupt ==
  /\ pc = "repl"
  /\ pc' = ReplInterruptNext
  /\ UNCHANGED <<shell, describe_shell, code, editor, stdin_passed, repl,
                 print_chat, delete_chat, role, chat_id, prompt, role_class,
                 sessions, init_sessions, full_completion, read_before,
                 handled_chat, repl_started, repl_turns, describes, log,
                 last_option, error>>

\* main, lines 200-210: the [C]opy, [A]bort prompt of --code
CodeChoose(opt) ==
  /\ pc = "code_menu"
  /\ IF stdin_passed
     \* stdin was drained at line 148: typer.prompt reads EOF and click
     \* raises Abort before any option is chosen.
     THEN /\ error' = "Abort" /\ pc' = "error"
          /\ log' = Append(log, "prompt_code")
          /\ UNCHANGED last_option
     ELSE /\ last_option' = opt
          /\ IF opt = "c"
             THEN IF full_completion = "unbound"
                  THEN /\ error' = "UnboundLocalError" /\ pc' = "error"
                       /\ log' = Append(log, "prompt_code")
                  ELSE /\ log' = log \o <<"prompt_code", "copy">>
                       /\ pc' = "done" /\ UNCHANGED error
             ELSE /\ log' = Append(log, "prompt_code") /\ pc' = "done"
                  /\ UNCHANGED error
  /\ UNCHANGED <<shell, describe_shell, code, editor, stdin_passed, repl,
                 print_chat, delete_chat, role, chat_id, prompt, role_class,
                 sessions, init_sessions, full_completion, read_before,
                 handled_chat, repl_started, repl_turns, describes>>

\* Copy going back to the prompt like Describe
ShellNextCopyLoops(opt) == IF opt \in {"d", "c"} THEN "shell_menu" ELSE "done"

\* Actions after which the loop goes on: only "d" reaches `continue`;
\* every other option falls through to `break`.
ShellNext(opt) == IF opt = "d" THEN "shell_menu" ELSE "done"

\* Effect of one option: run_command for e/y, copy_to_clipboard for c,
\* the describe-shell DefaultHandler for d.
ShellEffect(opt) ==
  CASE opt \in {"e", "y"} -> <<"run">>
    [] opt = "c" -> <<"copy">>
    [] opt = "d" -> <<"describe">>
    [] OTHER -> <<>>

\* main, lines 212-235: one iteration of the --shell action loop
ShellChoose(opt) ==
  /\ pc = "shell_menu"
  /\ ShellNext(opt) = "shell_menu" => describes < MaxDescribe
  /\ last_option' = opt
  /\ IF opt \in {"e", "y", "c", "d"} /\ full_completion = "unbound"
     THEN /\ error' = "UnboundLocalError" /\ pc' = "error"
          /\ log' = Append(log, "prompt_shell")
          /\ UNCHANGED describes
     ELSE /\ log' = log \o <<"prompt_shell">> \o ShellEffect(opt)
          /\ pc' = ShellNext(opt)
          /\ describes' = IF ShellNext(opt) = "shell_menu"
                           THEN describes + 1 ELSE describes
          /\ UNCHANGED error
  /\ UNCHANGED <<shell, describe_shell, code, editor, stdin_passed, repl,
                 print_chat, delete_chat, role, chat_id, prompt, role_class,
                 sessions, init_sessions, full_completion, read_before,
                 handled_chat, repl_started, repl_turns>>

Next ==
  \/ Start
  \/ ReplTurn
  \/ ReplInterrupt
  \/ \E o \in CodeOptions : CodeChoose(o)
  \/ \E o \in ShellOptions : ShellChoose(o)

Spec == Init /\ [][Next]_vars
Started == pc # "start"
TwoModes == (shell /\ describe_shell) \/ (shell /\ code) \/ (describe_shell /\ code)
Effects(l) == {l[i] : i \in 1..Len(l)}
ActionPrompted == ({"prompt_code", "prompt_shell"} \cap Effects(log)) # {}

\* C1: when two or more of --shell, --describe-shell, --code are set, main
\* stops with BadArgumentUsage before any handler: no effect at all and no
\* conversation changed.
C1_ConflictFailsFast ==
  (Started /\ TwoModes) =>
    /\ pc = "error" /\ error = "BadArgumentUsage"
    /\ log = <<>> /\ sessions = init_sessions
C1_Witness == TwoModes /\ pc = "error"
              /\ PromptGiven(prompt) /\ ~editor

\* C2: an explicit (non-empty) role name always gives the named role,
\* whatever the mode flags.
C2_ExplicitRoleWins ==
  (role_class # "-" /\ role \notin {NoRole, ""}) => role_class = role
C2_Witness == role_class = "custom" /\ (shell \/ code \/ describe_shell)

\* C3 (original): the action prompts are entered only when the resolved role
\* has the shell-command or code-only shape.
C3_Original ==
  pc \in {"code_menu", "shell_menu"} => Shape(role_class) \in {"shell", "code"}

\* C3 (amended): which action prompt is offered follows the raw flags: the
\* Copy/Abort prompt only with --code, the shell loop only with --shell and a
\* terminal stdin, and a completed run that skipped both had neither; the
\* resolved role plays no part (with piped stdin --shell shows no prompt).
C3_MenuFollowsFlags ==
  /\ pc = "code_menu" => code
  /\ pc = "shell_menu" => shell /\ ~stdin_passed
  /\ (pc = "done" /\ last_option = "-" /\ full_completion # "unbound")
       => ~code /\ ~(shell /\ ~stdin_passed)
C3_Witness == pc = "shell_menu" /\ Shape(role_class) = "plain"

\* C4: in the shell action loop, Describe runs the describe-shell completion
\* and goes back to the prompt with full_completion unchanged; Execute, Copy
\* and Abort end the loop after at most one effect.
C4_DescribeLoopsOthersEnd ==
  [][pc = "shell_menu" =>
       /\ (last_option' = "d" /\ pc' # "error") =>
             /\ pc' = "shell_menu" /\ full_completion' = full_completion
             /\ log' = log \o <<"prompt_shell", "describe">>
       /\ last_option' \in {"e", "y", "c", "a"} =>
             /\ pc' \in {"done", "error"}
             /\ Len(log') - Len(log) <= 2]_vars
C4_Witness == pc = "shell_menu" /\ describes >= 1 /\ full_completion = "cmd"

\* C5 (original): in shell mode, Copy goes back to the prompt.
C5_Original ==
  [][(pc = "shell_menu" /\ last_option' = "c") => pc' = "shell_menu"]_vars

\* C5 (amended): in shell mode, Copy puts the completion on the clipboard and
\* then ends the action loop.
C5_CopyEndsLoop ==
  [][(pc = "shell_menu" /\ last_option' = "c" /\ full_completion = "cmd") =>
       /\ pc' = "done"
       /\ log' = log \o <<"prompt_shell", "copy">>]_vars
C5_Witness == shell /\ last_option = "c" /\ pc = "done" /\ full_completion = "cmd"

\* C6: with piped stdin no action prompt is shown and run_command is never
\* called.
C6_PipeSkipsActions ==
  stdin_passed =>
    /\ pc \notin {"code_menu", "shell_menu"}
    /\ ~ActionPrompted /\ "run" \notin Effects(log)

\* C7: once the REPL started, the invocation stays in it until the interrupt
\* ends the process; only REPL turns on the REPL's chat id happen.
C7_ReplOnlyEndsByInterrupt ==
  repl_started =>
    /\ pc \in {"repl", "exited"}
    /\ Effects(log) \subseteq {"repl_turn"}
    /\ \A c \in ChatIds \ {chat_id} : sessions[c] = init_sessions[c]
C7_Witness == repl_started /\ pc = "exited" /\ repl_turns >= 1

\* C8: the default chat handler on "temp" reads zero prior messages before
\* appending, even when earlier invocations left messages there.
C8_TempReset == handled_chat = "temp" => read_before = 0
C8_Witness == handled_chat = "temp" /\ init_sessions["temp"] > 0

\* C9: --print-chat / --delete-chat exit right after acting (no completion,
\* no append, no prompt); a plain run without a prompt fails with
\* MissingParameter before any completion or append.
C9_PrintDeleteExitMissingPrompt ==
  /\ (Started /\ pc # "error" /\ ~repl /\ (print_chat \/ delete_chat)) =>
       /\ pc = "exited" /\ "complete" \notin Effects(log) /\ ~ActionPrompted
       /\ \A c \in ChatIds \ {chat_id} : sessions[c] = init_sessions[c]
       /\ sessions[chat_id] <= init_sessions[chat_id]
  /\ (Started /\ ~repl /\ ~print_chat /\ ~delete_chat /\ ~PromptGiven(prompt)
      /\ error # "BadArgumentUsage") =>
       /\ pc = "error" /\ error = "MissingParameter"
       /\ log = <<>> /\ sessions = init_sessions

\* C10: every run reaching the code prompt or the shell loop has a bound
\* full_completion.
C10_CompletionBoundAtMenus ==
  pc \in {"code_menu", "shell_menu"} => full_completion # "unbound"
====
